---- MODULE Spec2Model ----
(***************************************************************************)
(* Model of the tui layout engine: Buffer (src/unnamed/part_001, the       *)
(* version with bufferType / bufferOrientation / components) and its       *)
(* String method, the compositor.                                          *)
(*                                                                         *)
(* A string is a sequence of lines, a line a sequence of cells.  Cell 0    *)
(* is a blank, cell -1 a border glyph, cell g > 0 a glyph of the text of   *)
(* the g-th component, cell -2 a glyph of the root's own text, cell -3 a   *)
(* percent sign and cell -4 a character that fmt.Sprintf wrote.  The empty *)
(* string is one empty line (what strings.Split("", "\n") gives).          *)
(*                                                                         *)
(* The root is a ContainerBuffer; its components are plain text Buffers    *)
(* (tui.New(), block style) whose content is a block of cw x ch glyphs,    *)
(* every line one word.  lipgloss is modelled by what Style.Render does to *)
(* such text: wrap at width - padding, pad, align to width, border,        *)
(* margin.  Style.Width / Style.Height clamp a negative value to 0, and 0  *)
(* reads back as "not set".                                                *)
(***************************************************************************)
EXTENDS Integers, Sequences, FiniteSets, TLC

VARIABLES
    buf,      \* the root Buffer: style fields, orientation, value
    comps,    \* buf.components: the child Buffers, in order
    term,     \* what GetTerminalSize reports: <<width, height>>
    out,      \* the string the last String() call returned
    pre,      \* the state the last String() call started from (NoPre: none)
    runs,     \* String() calls made so far, at most MaxRuns
    asked,    \* whether Width(0) / Height(0) was called on the root
    dirty,    \* components were added or removed since the last String()
    call,     \* the last call of a string utility: its arguments and result
    box,      \* the Box, when one was built instead of a Buffer (NoBox: none)
    list,     \* the List, when one was built (NoList: none)
    paginator \* the Paginator, when one was built by itself (NoPaginator)

vars == <<buf, comps, term, out, pre, runs, asked, dirty, call, box, list,
          paginator>>

----------------------------------------------------------------------------
(* Bounds *)

MaxChildren == 2
MaxCW == 2
MaxCH == 2
MaxWidth == 5
MaxHeight == 2
MaxRuns == 2
MaxWideChildren == 3
MaxNumber == 120
MaxMinLength == 4
MaxStr == 3
MaxText == 7
MaxNumOfItems == 6
MaxPerPage == 3
MaxItems == 3

----------------------------------------------------------------------------
(* Strings *)

Max(a, b) == IF a > b THEN a ELSE b

EmptyStr == << <<>> >>

Blanks(n) == [i \in 1..n |-> 0]

Border(n) == [i \in 1..n |-> 0 - 1]

\* lipgloss.Width: the widest line
\* the largest of the numbers ns, 0 when there is none
Largest(ns) == CHOOSE w \in ns \cup {0} : \A n \in ns : n <= w

StrWidth(s) ==
    CHOOSE w \in { Largest({ Len(v[k]) : k \in 1..Len(v) }) : v \in {s} } :
        TRUE

\* lipgloss.Height: the number of lines
StrHeight(s) == Len(s)

\* one word hard-wrapped at m >= 1 cells
Chunk(line, m) ==
    [k \in 1..Max(1, (Len(line) + m - 1) \div m) |->
        SubSeq(line, (k - 1) * m + 1,
               IF k * m < Len(line) THEN k * m ELSE Len(line))]

RECURSIVE WrapLines(_, _)
WrapLines(s, m) ==
    IF s = <<>> THEN <<>> ELSE Chunk(Head(s), m) \o WrapLines(Tail(s), m)

PadRightTo(line, w) ==
    IF Len(line) < w THEN line \o Blanks(w - Len(line)) ELSE line

OwnGlyph == 0 - 2

Percent == 0 - 3

Noise == 0 - 4

NewLine == 0 - 5

\* a string as one sequence of characters, the lines separated by NewLine,
\* and back
RECURSIVE Flat(_)
Flat(s) ==
    IF Len(s) = 1 THEN s[1] ELSE s[1] \o <<NewLine>> \o Flat(Tail(s))

\* where the NewLines of f are, and the k-th of them
Breaks(f) == { i \in 1..Len(f) : f[i] = NewLine }

Nth(B, k) == CHOOSE i \in B : Cardinality({ j \in B : j <= i }) = k

\* the k-th of the lines of f that the NewLines at B separate
LineOf(f, B, k) ==
    SubSeq(f, IF k = 1 THEN 1 ELSE Nth(B, k - 1) + 1,
              IF k = Cardinality(B) + 1 THEN Len(f) ELSE Nth(B, k) - 1)

Unflat(f, line) ==
    CHOOSE r \in { [k \in 1..(Cardinality(Breaks(v)) + 1) |->
                       (IF k = 1 THEN line ELSE <<>>)
                           \o LineOf(v, Breaks(v), k)] : v \in {f} } : TRUE

\* fmt.Sprintf(format) without operands: the flags after a percent sign (of
\* the characters here, the blank)
RECURSIVE SkipFlags(_)
SkipFlags(f) ==
    IF f # <<>> /\ Head(f) = 0 THEN SkipFlags(Tail(f)) ELSE f

\* "%%" is "%", "%" at the end is "%!(NOVERB)", "%v" is "%!v(MISSING)"
RECURSIVE Formatted(_)

\* rest follows a percent sign and its flags
Verb(rest) ==
    IF rest = <<>>
    THEN <<Percent>> \o [k \in 1..9 |-> Noise]
    ELSE IF Head(rest) = Percent
    THEN <<Percent>> \o Formatted(Tail(rest))
    ELSE <<Percent, Noise, Head(rest)>>
         \o [k \in 1..9 |-> Noise]
         \o Formatted(Tail(rest))

\* where the first percent sign of f is
FirstPercent(f) ==
    CHOOSE i \in 1..Len(f) :
        f[i] = Percent /\ \A j \in 1..(i - 1) : f[j] # Percent

\* what comes before the first percent sign is copied
Formatted(f) ==
    IF \A i \in 1..Len(f) : f[i] # Percent THEN f
    ELSE CHOOSE r \in
             { SubSeq(v, 1, FirstPercent(v) - 1)
                   \o Verb(SkipFlags(SubSeq(v, FirstPercent(v) + 1, Len(v))))
               : v \in {f} } : TRUE

HasPercent(s) == \E k \in 1..Len(s) : \E j \in 1..Len(s[k]) : s[k][j] = Percent

Sprintf(s) == IF HasPercent(s) THEN Unflat(Formatted(Flat(s)), <<>>) ELSE s

\* string concatenation: the last line of s goes on with the first of t
StrCat(s, t) ==
    SubSeq(s, 1, Len(s) - 1) \o <<s[Len(s)] \o t[1]>> \o Tail(t)

\* Buffer.Add(s): the value after s, a format without operands, is added
Added(value, s) == CHOOSE r \in { StrCat(value, Sprintf(v)) : v \in {s} } : TRUE

RECURSIVE AddedAll(_, _)
AddedAll(value, strs) ==
    IF strs = <<>> THEN value
    ELSE AddedAll(Added(value, Head(strs)), Tail(strs))

----------------------------------------------------------------------------
(* lipgloss styles *)

NoClamp(n) == n

\* Style.Width / Style.Height: the stored value is never negative
Clamp(n) == IF n < 0 THEN 0 ELSE n

\* the text of a component: ch lines of cw glyphs
Content(c) == [k \in 1..c.ch |-> [j \in 1..c.cw |-> c.g]]

\* Buffer.FrameSize of a component: margin + padding + border, horizontally
\* and vertically
FrameW(c) == c.padL + c.padR + c.marL + c.marR + (IF c.bor THEN 2 ELSE 0)

FrameH(c) == IF c.bor THEN 2 ELSE 0

\* Style.Render, step by step, on the lines s of a component c.
\* Word wrap at width - padding, when a width is set and something is left
Wrapped(c, s) ==
    IF c.width > 0 /\ c.width - c.padL - c.padR >= 1
    THEN WrapLines(s, c.width - c.padL - c.padR) ELSE s

\* left and right padding
Padded(c, s) == [k \in 1..Len(s) |-> Blanks(c.padL) \o s[k] \o Blanks(c.padR)]

\* the height, when set and larger, is filled with empty lines
Tall(c, s) ==
    IF c.height > 0 /\ Len(s) < c.height
    THEN s \o [k \in 1..(c.height - Len(s)) |-> <<>>] ELSE s

AlignedNatural(c, s) ==
    IF Len(s) = 1 THEN s
    ELSE [k \in 1..Len(s) |-> PadRightTo(s[k], StrWidth(s))]

\* every line is padded to the widest line and to the width; a single line
\* under no width is left alone
Aligned(c, s) ==
    IF Len(s) = 1 /\ c.width = 0 THEN s
    ELSE [k \in 1..Len(s) |-> PadRightTo(s[k], Max(StrWidth(s), c.width))]

\* the border around the block
Boxed(c, s) ==
    IF c.bor
    THEN <<Border(StrWidth(s) + 2)>>
         \o [k \in 1..Len(s) |->
                Border(1) \o PadRightTo(s[k], StrWidth(s)) \o Border(1)]
         \o <<Border(StrWidth(s) + 2)>>
    ELSE s

\* left and right margin
Margined(c, s) == [k \in 1..Len(s) |-> Blanks(c.marL) \o s[k] \o Blanks(c.marR)]

\* Style.String() of a component: the text rendered under its style
RenderComp(c) ==
    Margined(c, Boxed(c, Aligned(c, Tall(c, Padded(c, Wrapped(c, Content(c)))))))

\* Buffer.Size of a component: the size of its rendered string
SizeW(c) == StrWidth(RenderComp(c))

SizeH(c) == StrHeight(RenderComp(c))

\* Buffer.String of a component (a TextBuffer with text and no components)
CompString(c) == RenderComp(c)

\* lipgloss.JoinHorizontal(Top, ...): blocks side by side, each padded to its
\* own width and to the tallest block
RECURSIVE JoinRow(_, _)
JoinRow(blocks, k) ==
    IF blocks = <<>> THEN <<>>
    ELSE LET b == Head(blocks)
             line == IF k <= Len(b) THEN b[k] ELSE <<>>
         IN  PadRightTo(line, StrWidth(b)) \o JoinRow(Tail(blocks), k)

RECURSIVE MaxHeightOf(_)
MaxHeightOf(blocks) ==
    IF blocks = <<>> THEN 0
    ELSE Max(StrHeight(Head(blocks)), MaxHeightOf(Tail(blocks)))

JoinHorizontal(blocks) ==
    IF Len(blocks) = 0 THEN EmptyStr
    ELSE IF Len(blocks) = 1 THEN blocks[1]
    ELSE [k \in 1..MaxHeightOf(blocks) |-> JoinRow(blocks, k)]

\* lipgloss.JoinVertical(Left, ...): blocks stacked, every line padded to the
\* widest line
RECURSIVE Concat(_)
Concat(blocks) ==
    IF blocks = <<>> THEN <<>> ELSE Head(blocks) \o Concat(Tail(blocks))

JoinVertical(blocks) ==
    IF Len(blocks) = 0 THEN EmptyStr
    ELSE IF Len(blocks) = 1 THEN blocks[1]
    ELSE LET all == Concat(blocks)
             w == StrWidth(all)
         IN  [k \in 1..Len(all) |-> PadRightTo(all[k], w)]

----------------------------------------------------------------------------
(* The root Buffer *)

Vertical == "Vertical"
Horizontal == "Horizontal"

TextBuffer == "TextBuffer"
ContainerBuffer == "ContainerBuffer"

\* Buffer.FrameSize of the root: margin + padding on each axis
RootFrameW(b) == b.padH + b.marH

RootFrameH(b) == b.padV + b.marV

\* the scan of Buffer.String over the components: the index (from 1) of the
\* component holding the running maximum of the widths; a width replaces
\* the maximum only when strictly larger
RECURSIVE ScanMaxIndexLast(_, _, _, _)
ScanMaxIndexLast(ws, i, maxWidth, mWIndex) ==
    IF i > Len(ws) THEN mWIndex
    ELSE IF ws[i] >= maxWidth THEN ScanMaxIndexLast(ws, i + 1, ws[i], i)
    ELSE ScanMaxIndexLast(ws, i + 1, maxWidth, mWIndex)

RECURSIVE ScanMaxIndex(_, _, _, _)
ScanMaxIndex(ws, i, maxWidth, mWIndex) ==
    IF i > Len(ws) THEN mWIndex
    ELSE IF ws[i] > maxWidth THEN ScanMaxIndex(ws, i + 1, ws[i], i)
    ELSE ScanMaxIndex(ws, i + 1, maxWidth, mWIndex)

MWIndex(ws) == ScanMaxIndex(ws, 1, 0, 1)

RECURSIVE Sum(_)
Sum(ws) == IF ws = <<>> THEN 0 ELSE Head(ws) + Sum(Tail(ws))

RECURSIVE MaxOf(_)
MaxOf(ws) == IF ws = <<>> THEN 0 ELSE Max(Head(ws), MaxOf(Tail(ws)))

FallbackWNoFrame(b, t) ==
    IF b.width = 0 /\ t[1] > 0 THEN Clamp(t[1]) ELSE b.width

\* the terminal-size fallback at the head of the container branch
FallbackW(b, t) ==
    IF b.width = 0 /\ t[1] > 0 THEN Clamp(t[1] - RootFrameW(b)) ELSE b.width

FallbackH(b, t) ==
    IF b.height = 0 /\ t[2] > 0 THEN Clamp(t[2] - RootFrameH(b)) ELSE b.height

HSnapsSet(bw, totalWidth) == bw > 0 /\ totalWidth < bw

\* Horizontal: the container takes the width of its components
HSnaps(bw, totalWidth) == (bw > 0 /\ totalWidth < bw) \/ bw = 0

\* Horizontal: what is left to take from the components
DeltaWidth(bw, totalWidth, paddingHor) ==
    IF HSnaps(bw, totalWidth) THEN 0 ELSE totalWidth - bw - paddingHor

\* Horizontal: the width stored on component i
HChildWidth(w, bfw, i, mWIndex, subtractWidth, subtractWidthDelta) ==
    LET w0 == w - subtractWidth - bfw
    IN  IF i = mWIndex /\ subtractWidthDelta > 0
        THEN w0 - subtractWidthDelta ELSE w0

SnapHeightKeep(bh, need, paddingVer) ==
    IF bh = 0 THEN Clamp(need + paddingVer) ELSE bh

\* Horizontal and Vertical: the snap of the container's height (Horizontal:
\* need = maxHeight, Vertical: need = totalHeight)
SnapHeight(bh, need, paddingVer) ==
    IF (need < bh /\ bh > 0) \/ bh = 0 THEN Clamp(need + paddingVer) ELSE bh

SnapWidthNoPad(bw, maxWidth, paddingHor) ==
    IF (maxWidth < bw /\ bw > 0) \/ bw = 0 THEN Clamp(maxWidth) ELSE bw

SnapWidthGrow(bw, maxWidth, paddingHor) ==
    IF (maxWidth > bw /\ bw > 0) \/ bw = 0 THEN Clamp(maxWidth + paddingHor)
    ELSE bw

\* Vertical: the snap of the container's width
SnapWidth(bw, maxWidth, paddingHor) ==
    IF (maxWidth < bw /\ bw > 0) \/ bw = 0 THEN Clamp(maxWidth + paddingHor)
    ELSE bw

\* Vertical: component i is resized when it is wider than the container
VShrinks(bw, w) == bw > 0 /\ w > bw

\* the string a container returns: lipgloss's rendering of its value under
\* its style, kept as the value and the style fields the rendering reads
Rendered(b) ==
    [value |-> b.value, width |-> b.width, height |-> b.height,
     padH |-> b.padH, padV |-> b.padV, marH |-> b.marH, marV |-> b.marV]

EmptyOut == [value |-> EmptyStr, width |-> 0, height |-> 0,
             padH |-> 0, padV |-> 0, marH |-> 0, marV |-> 0]

\* Buffer.String on a buffer without components: "" when it has no text
\* either, else its text under its style; nothing is allocated
NoComponentsFallback(b, cs, t) ==
    LET b1 == [b EXCEPT !.width = FallbackW(b, t), !.height = FallbackH(b, t)]
    IN  [buf |-> b1, comps |-> cs,
         out |-> IF b.value = EmptyStr THEN EmptyOut ELSE Rendered(b1)]

NoComponents(b, cs, t) ==
    [buf |-> b, comps |-> cs,
     out |-> IF b.value = EmptyStr THEN EmptyOut ELSE Rendered(b)]

\* what a String() call leaves and returns
Result(b, cs) == [buf |-> b, comps |-> cs, out |-> Rendered(b)]

\* the measured widths and heights of the components
Widths(cs) == [i \in 1..Len(cs) |-> SizeW(cs[i])]

Heights(cs) == [i \in 1..Len(cs) |-> SizeH(cs[i])]

\* the strings of the components
Strings(cs) == [i \in 1..Len(cs) |-> CompString(cs[i])]

\* the head of the container branch: the text is unset and the terminal
\* size fills in an unset width or height
Fallback(b, t) ==
    [b EXCEPT !.width = FallbackW(b, t), !.height = FallbackH(b, t),
              !.value = EmptyStr]

\* Horizontal: the loop that resizes the components
HResizeBy(cs, ws, mWIndex, subtractWidth, subtractWidthDelta) ==
    [i \in 1..Len(cs) |->
        [cs[i] EXCEPT !.width =
            Clamp(HChildWidth(ws[i], FrameW(cs[i]), i, mWIndex,
                              subtractWidth, subtractWidthDelta))]]

HResize(cs, ws, deltaWidth) ==
    HResizeBy(cs, ws, MWIndex(ws), deltaWidth \div Len(cs),
              deltaWidth - (deltaWidth \div Len(cs)) * Len(cs))

\* Horizontal: the container's own width, height and text
HDone(b, cs1, totalWidth, maxHeight) ==
    Result([b EXCEPT
               !.width = IF HSnaps(b.width, totalWidth)
                         THEN Clamp(totalWidth) ELSE b.width,
               !.height = SnapHeight(b.height, maxHeight, b.padV),
               !.value = Added(b.value, JoinHorizontal(Strings(cs1)))],
           cs1)

HorizontalString(b, cs, ws, hs) ==
    HDone(b, HResize(cs, ws, DeltaWidth(b.width, Sum(ws), b.padH)),
          Sum(ws), MaxOf(hs))

\* Vertical: the container's own width and height
VSnapped(b, maxWidth, totalHeight) ==
    [b EXCEPT !.width = SnapWidth(b.width, maxWidth, b.padH),
              !.height = SnapHeight(b.height, totalHeight, b.padV)]

\* Vertical: the loop that resizes the components
VResize(b, cs, ws) ==
    [i \in 1..Len(cs) |->
        IF VShrinks(b.width, ws[i])
        THEN [cs[i] EXCEPT !.width = Clamp(b.width - b.padH - FrameW(cs[i]))]
        ELSE cs[i]]

VDone(b, cs1) ==
    Result([b EXCEPT !.value = Added(b.value, JoinVertical(Strings(cs1)))],
           cs1)

VResized(b, cs, ws) == VDone(b, VResize(b, cs, ws))

VerticalString(b, cs, ws, hs) ==
    VResized(VSnapped(b, MaxOf(ws), Sum(hs)), cs, ws)

\* the container branch
ContainerString(b, cs, ws, hs) ==
    IF b.orient = Horizontal THEN HorizontalString(b, cs, ws, hs)
    ELSE VerticalString(b, cs, ws, hs)

\* the TextBuffer branch: the strings of the components are added, one after
\* the other, when the buffer has no text; else nothing changes
TextString(b, cs, t) ==
    IF Len(cs) > 0 /\ b.value = EmptyStr
    THEN Result([b EXCEPT !.value = AddedAll(b.value, Strings(cs))], cs)
    ELSE NoComponents(b, cs, t)

\* Buffer.String on a buffer b with components cs and terminal t: the
\* buffer and the components it leaves and the string it returns
BufferString(b, cs, t) ==
    IF b.type = TextBuffer THEN TextString(b, cs, t)
    ELSE IF Len(cs) = 0 THEN NoComponents(b, cs, t)
    ELSE ContainerString(Fallback(b, t), cs, Widths(cs), Heights(cs))

----------------------------------------------------------------------------
(* The state machine *)

\* the frames a component is built with
NoFrame == [padL |-> 0, padR |-> 0, marL |-> 0, marR |-> 0, bor |-> FALSE]

\* Padding(0, 1)
PadFrame == [padL |-> 1, padR |-> 1, marL |-> 0, marR |-> 0, bor |-> FALSE]

\* Margin(0, 1)
MarFrame == [padL |-> 0, padR |-> 0, marL |-> 1, marR |-> 1, bor |-> FALSE]

\* a border on every side
BorFrame == [padL |-> 0, padR |-> 0, marL |-> 0, marR |-> 0, bor |-> TRUE]

\* the components a caller adds: <<text width, text height, frame>>
Kinds ==
    { <<cw, 1, NoFrame>> : cw \in 1..MaxCW }
    \cup { <<MaxCW - 1, MaxCH, NoFrame>> }
    \cup { <<MaxCW + 1, 1, PadFrame>>, <<MaxCW - 1, 1, MarFrame>>,
           <<1, 1, BorFrame>> }

\* a new component: tui.New() with text of cw x ch glyphs and frame f, as
\* the g-th component
NewComp(g, cw, ch, f) ==
    [g |-> g, cw |-> cw, ch |-> ch,
     padL |-> f.padL, padR |-> f.padR, marL |-> f.marL, marR |-> f.marR,
     bor |-> f.bor, width |-> 0, height |-> 0]

\* the sizes GetTerminalSize reports: none, a small one, a large one
Terminals == { <<0, 0>>, <<5, 3>>, <<80, 24>> }

\* Padding(p) and Margin(m) of the root
RootFrames == { <<0, 0>>, <<1, 0>>, <<0, 1>> }

NoPre == [none |-> TRUE]

\* no Width(0) or Height(0) call yet
NotAsked == [w |-> FALSE, h |-> FALSE]

\* no utility called yet
NoCall == [fn |-> "none"]

\* no Box built
NoBox == [none |-> TRUE]

\* no List built
NoList == [none |-> TRUE]

\* no Paginator built by itself
NoPaginator == [none |-> TRUE]

\* New() as a ContainerBuffer with Padding(p) and Margin(m)
NewRoot(o, p, m) ==
    [type |-> ContainerBuffer, orient |-> o, width |-> 0, height |-> 0,
     padH |-> 2 * p, padV |-> 2 * p, marH |-> 2 * m, marV |-> 2 * m,
     value |-> EmptyStr]

Init ==
    /\ \E o \in {Vertical, Horizontal}, pm \in RootFrames :
           buf = NewRoot(o, pm[1], pm[2])
    /\ comps = <<>>
    /\ term \in Terminals
    /\ out = EmptyOut
    /\ pre = NoPre
    /\ runs = 0
    /\ asked = NotAsked
    /\ dirty = FALSE
    /\ call = NoCall
    /\ box = NoBox
    /\ list = NoList
    /\ paginator = NoPaginator

\* Buffer.AddC, while the tree is being built
AddC(cw, ch, f) ==
    /\ runs = 0
    /\ comps' = Append(comps, NewComp(Len(comps) + 1, cw, ch, f))
    /\ UNCHANGED <<buf, term, out, pre, runs, asked, dirty, call, box,
                   list, paginator>>

\* Buffer.Width(n), while the tree is being built; the call overwrites the
\* stored width, so the widths a second call reaches are those the first
\* call reaches and one call per container is explored
Width(n) ==
    /\ runs = 0
    /\ buf.width = 0
    /\ buf' = [buf EXCEPT !.width = Clamp(n)]
    /\ UNCHANGED <<comps, term, out, pre, runs, asked, dirty, call, box,
                   list, paginator>>

\* Buffer.Height(n), while the tree is being built; one call per container
\* is explored, as for Width
Height(n) ==
    /\ runs = 0
    /\ buf.height = 0
    /\ buf' = [buf EXCEPT !.height = Clamp(n)]
    /\ UNCHANGED <<comps, term, out, pre, runs, asked, dirty, call, box,
                   list, paginator>>

\* the state a String() call leaves
Leaves(r) ==
    /\ buf' = r.buf
    /\ comps' = r.comps
    /\ out' = r.out

\* Buffer.String
String ==
    /\ runs < MaxRuns
    /\ Leaves(BufferString(buf, comps, term))
    /\ pre' = [buf |-> buf, comps |-> comps, out |-> out, dirty |-> dirty]
    /\ dirty' = FALSE
    /\ runs' = runs + 1
    /\ UNCHANGED <<term, asked, call, box, list, paginator>>

Next ==
    \/ \E k \in Kinds : Len(comps) < MaxChildren /\ AddC(k[1], k[2], k[3])
    \/ \E n \in (0 - 1)..MaxWidth : Width(n)
    \/ \E n \in (0 - 1)..MaxHeight : Height(n)
    \/ String

Spec == Init /\ [][Next]_vars

\* the same operations on wider components without a frame, in a container
\* of explicit width around 15
WideKinds ==
    { <<5, 1, NoFrame>>, <<9, 1, NoFrame>>, <<4, 2, NoFrame>>, <<6, 3, NoFrame>> }

WideWidths == { 0, 14, 15, 16 }

NextWide ==
    \/ \E k \in WideKinds :
           Len(comps) < MaxWideChildren /\ AddC(k[1], k[2], k[3])
    \/ \E n \in WideWidths : Width(n)
    \/ String

SpecWide == Init /\ [][NextWide]_vars

----------------------------------------------------------------------------
(* Mutation between String() calls *)

\* Buffer.AddC on a container that was rendered before; one change between
\* two String() calls is explored
AddCLater(cw, ch, f) ==
    /\ runs >= 1
    /\ ~dirty
    /\ comps' = Append(comps, NewComp(Len(comps) + 1, cw, ch, f))
    /\ dirty' = TRUE
    /\ UNCHANGED <<buf, term, out, pre, runs, asked, call, box, list,
                   paginator>>

\* Buffer.UnsetComponents on a container that was rendered before
UnsetComponents ==
    /\ runs >= 1
    /\ ~dirty
    /\ Len(comps) > 0
    /\ comps' = <<>>
    /\ dirty' = TRUE
    /\ UNCHANGED <<buf, term, out, pre, runs, asked, call, box, list,
                   paginator>>

\* a container built, rendered, changed and rendered again; no width or
\* height is requested
NextMut ==
    \/ \E k \in Kinds : Len(comps) < MaxChildren /\ AddC(k[1], k[2], k[3])
    \/ \E k \in Kinds :
           Len(comps) < MaxChildren /\ AddCLater(k[1], k[2], k[3])
    \/ UnsetComponents
    \/ String

SpecMut == Init /\ [][NextMut]_vars

----------------------------------------------------------------------------
(* Text and components *)

\* New(), as a TextBuffer or a ContainerBuffer, without a frame
InitText ==
    /\ \E ty \in {TextBuffer, ContainerBuffer}, o \in {Vertical, Horizontal} :
           buf = [NewRoot(o, 0, 0) EXCEPT !.type = ty]
    /\ comps = <<>>
    /\ term \in Terminals
    /\ out = EmptyOut
    /\ pre = NoPre
    /\ runs = 0
    /\ asked = NotAsked
    /\ dirty = FALSE
    /\ call = NoCall
    /\ box = NoBox
    /\ list = NoList
    /\ paginator = NoPaginator

\* Buffer.Add of w glyphs to the root, while it has no text
Add(w) ==
    /\ runs = 0
    /\ buf.value = EmptyStr
    /\ buf' = [buf EXCEPT !.value = Added(buf.value, <<[j \in 1..w |-> OwnGlyph]>>)]
    /\ UNCHANGED <<comps, term, out, pre, runs, asked, dirty, call, box,
                   list, paginator>>

\* Buffer.AddC of a component whose text is a percent sign
AddCPercent ==
    /\ runs = 0
    /\ comps' = Append(comps, NewComp(Percent, 1, 1, NoFrame))
    /\ UNCHANGED <<buf, term, out, pre, runs, asked, dirty, call, box,
                   list, paginator>>

NextText ==
    \/ \E w \in 1..MaxCW : Add(w)
    \/ \E k \in Kinds : Len(comps) < MaxChildren /\ AddC(k[1], k[2], k[3])
    \/ Len(comps) < MaxChildren /\ AddCPercent
    \/ String

SpecText == InitText /\ [][NextText]_vars

----------------------------------------------------------------------------
(* Width(0) and Height(0) *)

\* Buffer.Width(0), while the tree is being built
WidthZero ==
    /\ runs = 0
    /\ ~asked.w
    /\ buf' = [buf EXCEPT !.width = Clamp(0)]
    /\ asked' = [asked EXCEPT !.w = TRUE]
    /\ UNCHANGED <<comps, term, out, pre, runs, dirty, call, box, list,
                   paginator>>

\* Buffer.Height(0), while the tree is being built
HeightZero ==
    /\ runs = 0
    /\ ~asked.h
    /\ buf' = [buf EXCEPT !.height = Clamp(0)]
    /\ asked' = [asked EXCEPT !.h = TRUE]
    /\ UNCHANGED <<comps, term, out, pre, runs, dirty, call, box, list,
                   paginator>>

NextZero ==
    \/ \E k \in Kinds : Len(comps) < MaxChildren /\ AddC(k[1], k[2], k[3])
    \/ WidthZero
    \/ HeightZero
    \/ String

SpecZero == Init /\ [][NextZero]_vars

----------------------------------------------------------------------------
(* Box *)

\* what int(math.Floor(x)) gives when x is NaN or an infinity: the
\* conversion is implementation-dependent, the smallest integer on some
\* processors, 0 or the largest on others
Huge == 1000000

\* int(math.Floor(float64(delta) / float64(n)))
Quotients(delta, n) ==
    IF n = 0 THEN {0 - Huge, 0, Huge} ELSE {delta \div n}

\* Buffer.Size of an element of a Box: Dim + Frames
ElemW(c) == c.cw + FrameW(c)

ElemH(c) == c.ch + FrameH(c)

ElemWidths(es) == [i \in 1..Len(es) |-> ElemW(es[i])]

ElemHeights(es) == [i \in 1..Len(es) |-> ElemH(es[i])]

\* NewBox() and NewPage(): a Page has Margin(1, 2)
NewBox(page) ==
    [width |-> 0, height |-> 0, direction |-> Vertical, elements |-> <<>>,
     fw |-> IF page THEN 4 ELSE 0, fh |-> IF page THEN 2 ELSE 0,
     failed |-> FALSE]

\* SetDim: the arguments are stored
Stored(b, dimensions) ==
    IF Len(dimensions) = 0 THEN [b EXCEPT !.width = 0, !.height = 0]
    ELSE IF Len(dimensions) = 1 THEN [b EXCEPT !.width = dimensions[1]]
    ELSE [b EXCEPT !.width = dimensions[1], !.height = dimensions[2]]

\* SetDim: the early returns
Returns(b, dimensions) ==
    \/ Len(dimensions) = 1 /\ b.width > 0
    \/ Len(dimensions) = 2 /\ b.width > 0 /\ b.height > 0

\* SetDim: the width and the height against the terminal and the elements
Fitted(b, t, sw) ==
    LET w1 == IF b.width = 0 \/ b.width - b.fw > t[1] THEN t[1] ELSE b.width
        h1 == IF b.height = 0 \/ b.height - t[2] > t[2]
              THEN t[2] ELSE b.height
    IN  [b EXCEPT !.width = IF w1 - b.fw > sw THEN sw ELSE w1,
                  !.height = h1]

\* SetDim, Horizontal: the height against the tallest element
Lowered(b, maxh) ==
    [b EXCEPT !.height = IF b.height - b.fh > maxh THEN maxh ELSE b.height]

\* SetDim, Horizontal: the indices (from 1) of the elements that were the
\* widest so far when scanned
RECURSIVE Longest(_, _, _)
Longest(ws, i, refW) ==
    IF i > Len(ws) THEN <<>>
    ELSE IF ws[i] > refW THEN <<i>> \o Longest(ws, i + 1, ws[i])
    ELSE Longest(ws, i + 1, refW)

PicksUnguarded(delta, longest) == delta > 0

\* SetDim, Horizontal: whether the rest is taken from the last of longest
Picks(delta, longest) == delta > 0 /\ Len(longest) > 0

\* SetDim, Horizontal: the widths stored on the elements
Narrowed(es, ws, toSubtract, delta, longest) ==
    [i \in 1..Len(es) |->
        [es[i] EXCEPT !.width =
            IF Picks(delta, longest) /\ Len(longest) > 0
                  /\ i = longest[Len(longest)]
            THEN Clamp(ws[i] - delta) ELSE Clamp(ws[i] - toSubtract)]]

\* SetDim, Horizontal: the division, the loop over the elements and the
\* last element of longest; reading it when longest is empty is an index
\* out of range
Divided(b, ws, toSubtract, delta) ==
    [b EXCEPT
        !.elements = Narrowed(b.elements, ws, toSubtract, delta,
                              Longest(ws, 1, 0)),
        !.failed = b.failed
                   \/ (Picks(delta, Longest(ws, 1, 0))
                       /\ Len(Longest(ws, 1, 0)) = 0)]

\* SetDim after the early returns, with toSubtract the quotient
Dimensioned(b, t, toSubtract) ==
    IF b.direction = Horizontal
    THEN Divided(Lowered(Fitted(b, t, Sum(ElemWidths(b.elements))),
                         MaxOf(ElemHeights(b.elements))),
                 ElemWidths(b.elements), toSubtract,
                 Sum(ElemWidths(b.elements))
                    - Fitted(b, t, Sum(ElemWidths(b.elements))).width
                    - toSubtract * Len(b.elements))
    ELSE Fitted(b, t, Sum(ElemWidths(b.elements)))

\* the quotients the division of SetDim can give
SetDimQuotients(b, t) ==
    Quotients(Sum(ElemWidths(b.elements))
                 - Fitted(b, t, Sum(ElemWidths(b.elements))).width,
              Len(b.elements))

\* Box.SetDim(dimensions...), with toSubtract the quotient
SetDimTo(b, dimensions, t, toSubtract) ==
    IF Returns(Stored(b, dimensions), dimensions)
    THEN Stored(b, dimensions)
    ELSE Dimensioned(Stored(b, dimensions), t, toSubtract)

\* Box.String: the elements' strings joined, written to the buffer of the
\* Box and rendered under its style
BoxOut(b) ==
    [EmptyOut EXCEPT
        !.value = Sprintf(IF b.direction = Vertical
                          THEN JoinVertical(Strings(b.elements))
                          ELSE JoinHorizontal(Strings(b.elements))),
        !.marH = b.fw, !.marV = b.fh]

\* the dimensions SetDim is called with
Dimensions ==
    {<<>>} \cup { <<w>> : w \in {0 - 3, 0, 3} }
           \cup { <<w, h>> : w \in {0 - 3, 0, 3}, h \in {0, 2} }

\* a Box, or a Page, is built instead of a Buffer
InitBox ==
    /\ buf = NewRoot(Vertical, 0, 0)
    /\ comps = <<>>
    /\ term \in Terminals
    /\ out = EmptyOut
    /\ pre = NoPre
    /\ runs = 0
    /\ asked = NotAsked
    /\ dirty = FALSE
    /\ call = NoCall
    /\ \E page \in BOOLEAN : box = NewBox(page)
    /\ list = NoList
    /\ paginator = NoPaginator

\* Box.Add
BoxAdd(cw, ch, f) ==
    /\ box # NoBox
    /\ runs = 0
    /\ box' = [box EXCEPT !.elements =
                  Append(@, NewComp(Len(@) + 1, cw, ch, f))]
    /\ UNCHANGED <<buf, comps, term, out, pre, runs, asked, dirty, call,
                   list, paginator>>

\* Box.SetDirection
SetDirection(direction) ==
    /\ box # NoBox
    /\ runs = 0
    /\ box.direction # direction
    /\ box' = [box EXCEPT !.direction = direction]
    /\ UNCHANGED <<buf, comps, term, out, pre, runs, asked, dirty, call,
                   list, paginator>>

\* Box.SetDim, on a Box that has no width and no height yet
SetDim(dimensions) ==
    /\ box # NoBox
    /\ runs = 0
    /\ ~box.failed
    /\ box.width = 0 /\ box.height = 0
    /\ \E toSubtract \in SetDimQuotients(Stored(box, dimensions), term) :
           box' = SetDimTo(box, dimensions, term, toSubtract)
    /\ UNCHANGED <<buf, comps, term, out, pre, runs, asked, dirty, call,
                   list, paginator>>

\* Box.String: SetDim(b.width, b.height), then the elements are rendered; a
\* failure in SetDim ends the call without a string
BoxString ==
    /\ box # NoBox
    /\ runs < MaxRuns
    /\ ~box.failed
    /\ \E toSubtract \in
             SetDimQuotients(Stored(box, <<box.width, box.height>>), term) :
           /\ box' = SetDimTo(box, <<box.width, box.height>>, term, toSubtract)
           /\ out' = IF box'.failed THEN out ELSE BoxOut(box')
    /\ runs' = runs + 1
    /\ pre' = [buf |-> buf, comps |-> comps, out |-> out, dirty |-> dirty]
    /\ UNCHANGED <<buf, comps, term, asked, dirty, call, list, paginator>>

\* a Buffer tree or a Box is built and rendered
InitRender == Init \/ InitBox

NextRender ==
    \/ box = NoBox /\ \E k \in Kinds :
           Len(comps) < MaxChildren /\ AddC(k[1], k[2], k[3])
    \/ box = NoBox /\ \E n \in {0 - 1, 1, 3} : Width(n)
    \/ box = NoBox /\ \E n \in {0 - 1, 1} : Height(n)
    \/ box = NoBox /\ String
    \/ box # NoBox /\ \E k \in Kinds :
           Len(box.elements) < MaxChildren /\ BoxAdd(k[1], k[2], k[3])
    \/ \E d \in {Vertical, Horizontal} : SetDirection(d)
    \/ \E dimensions \in Dimensions : SetDim(dimensions)
    \/ BoxString

SpecRender == InitRender /\ [][NextRender]_vars

----------------------------------------------------------------------------
(* String utilities *)

\* the strings of at most n characters of S
StringsOver(S, n) == UNION { [1..k -> S] : k \in 0..n }

Digit(d) == <<"0", "1", "2", "3", "4", "5", "6", "7", "8", "9">>[d + 1]

RECURSIVE Digits(_)
Digits(n) ==
    IF n < 10 THEN <<Digit(n)>>
    ELSE Digits(n \div 10) \o <<Digit(n % 10)>>

\* strconv.Itoa
Itoa(number) ==
    IF number < 0 THEN <<"-">> \o Digits(0 - number) ELSE Digits(number)

\* the characters of the strings that are truncated: one byte and one cell,
\* two bytes and one cell, three bytes and two cells; "broken" is a byte
\* that is no character
Letters == {"a", "eacute", "han"}

CharBytes(c) == IF c = "eacute" THEN 2 ELSE IF c = "han" THEN 3 ELSE 1

\* what a byte that is no character measures: one cell, or two where the
\* replacement character is wide
BrokenWidths == {1, 2}

CharWidth(c, brokenWidth) ==
    IF c = "han" THEN 2 ELSE IF c = "broken" THEN brokenWidth ELSE 1

\* lipgloss.Width of one line
RECURSIVE WidthOf(_, _)
WidthOf(str, brokenWidth) ==
    IF str = <<>> THEN 0
    ELSE CharWidth(Head(str), brokenWidth) + WidthOf(Tail(str), brokenWidth)

\* lipgloss.Width of a string of whole characters
LineWidth(str) == WidthOf(str, 1)

\* len(str): the bytes of a string
RECURSIVE ByteLen(_)
ByteLen(str) ==
    IF str = <<>> THEN 0 ELSE CharBytes(Head(str)) + ByteLen(Tail(str))

\* str[:n] for 0 <= n <= len(str): the characters that fit whole in n
\* bytes, then the bytes of a character that was cut
RECURSIVE ByteSlice(_, _)
ByteSlice(str, n) ==
    IF n <= 0 \/ str = <<>> THEN <<>>
    ELSE IF CharBytes(Head(str)) <= n
    THEN <<Head(str)>> \o ByteSlice(Tail(str), n - CharBytes(Head(str)))
    ELSE [k \in 1..n |-> "broken"]

PadCountFull(nl, minLength) == IF nl < minLength THEN minLength ELSE 0

\* FormatIntWithPrefix: how many times the loop writes "0"
PadCount(nl, minLength) == IF nl < minLength THEN minLength - nl ELSE 0

Zeros(k) == [i \in 1..k |-> "0"]

FormatIntWithPrefix(number, minLength) ==
    Zeros(PadCount(LineWidth(Itoa(number)), minLength)) \o Itoa(number)

\* the default truncation string
Dots == <<".", ".", ".">>

\* TruncateString: tr
Truncation(truncation) ==
    IF Len(truncation) > 0 THEN truncation[1] ELSE Dots

\* TruncateString: the branch that cuts str; Render colours tr and leaves
\* its characters and its width
Cut(str, length, dots) ==
    IF length < LineWidth(dots) THEN ByteSlice(str, length)
    ELSE ByteSlice(str, length - LineWidth(dots)) \o dots

\* TruncateString: whether a slice expression is out of range
CutPanics(str, length, dots) ==
    IF length < LineWidth(dots) THEN length > ByteLen(str)
    ELSE length - LineWidth(dots) > ByteLen(str)

TruncateString(str, length, truncation) ==
    IF length <= 0 THEN <<>>
    ELSE IF LineWidth(str) > length
    THEN Cut(str, length, Truncation(truncation))
    ELSE str

\* the characters of the strings that are cleaned
Texts == {"x", " ", "\t", "\n"}

\* unicode.IsSpace, on the characters of a line
IsSpace(c) == c \in {" ", "\t"}

\* strings.Split(s, "\n")
RECURSIVE Split(_, _)
Split(s, line) ==
    IF s = <<>> THEN <<line>>
    ELSE IF Head(s) = "\n" THEN <<line>> \o Split(Tail(s), <<>>)
    ELSE Split(Tail(s), Append(line, Head(s)))

RECURSIVE TrimLeft(_)
TrimLeft(line) ==
    IF line # <<>> /\ IsSpace(Head(line)) THEN TrimLeft(Tail(line)) ELSE line

RECURSIVE TrimRight(_)
TrimRight(line) ==
    IF line # <<>> /\ IsSpace(line[Len(line)])
    THEN TrimRight(SubSeq(line, 1, Len(line) - 1)) ELSE line

\* strings.TrimSpace
TrimSpace(line) == TrimRight(TrimLeft(line))

\* CleanString: the first loop, over the lines from the i-th
RECURSIVE Found(_, _, _)
Found(lines, i, found) ==
    IF i > Len(lines) THEN <<>>
    ELSE IF TrimSpace(lines[i]) = <<>> /\ ~found
    THEN Found(lines, i + 1, found)
    ELSE <<TrimSpace(lines[i])>> \o Found(lines, i + 1, TRUE)

KeepTrailing(result, i) == result

\* CleanString: the second loop, backwards from the i-th line
RECURSIVE CutTrailing(_, _)
CutTrailing(result, i) ==
    IF i < 1 THEN result
    ELSE IF result[i] # <<>> THEN SubSeq(result, 1, i)
    ELSE CutTrailing(result, i - 1)

\* strings.Join(lines, "\n")
RECURSIVE Join(_)
Join(lines) ==
    IF lines = <<>> THEN <<>>
    ELSE IF Len(lines) = 1 THEN lines[1]
    ELSE lines[1] \o <<"\n">> \o Join(Tail(lines))

Cleaned(result) == Join(CutTrailing(result, Len(result)))

CleanString(s) == Cleaned(Found(Split(s, <<>>), 1, FALSE))

\* no Buffer and no Box is built
InitUtil ==
    /\ buf = NewRoot(Vertical, 0, 0)
    /\ comps = <<>>
    /\ term = <<0, 0>>
    /\ out = EmptyOut
    /\ pre = NoPre
    /\ runs = 0
    /\ asked = NotAsked
    /\ dirty = FALSE
    /\ box = NoBox
    /\ list = NoList
    /\ paginator = NoPaginator
    /\ call = NoCall

\* a call of FormatIntWithPrefix; the utilities keep no state, so one call
\* is explored from the start
FormatInt(number, minLength) ==
    /\ call = NoCall
    /\ call' = [fn |-> "FormatIntWithPrefix", number |-> number,
                minLength |-> minLength,
                result |-> FormatIntWithPrefix(number, minLength)]
    /\ UNCHANGED <<buf, comps, term, out, pre, runs, asked, dirty, box,
                   list, paginator>>

\* a call of TruncateString; a slice out of range ends it without a result
Truncate(str, length, truncation) ==
    /\ call = NoCall
    /\ \E brokenWidth \in BrokenWidths :
           call' = [fn |-> "TruncateString", str |-> str, length |-> length,
                    truncation |-> truncation, brokenWidth |-> brokenWidth,
                    panics |-> /\ length > 0
                               /\ LineWidth(str) > length
                               /\ CutPanics(str, length,
                                            Truncation(truncation)),
                    result |-> TruncateString(str, length, truncation)]
    /\ UNCHANGED <<buf, comps, term, out, pre, runs, asked, dirty, box,
                   list, paginator>>

\* a call of CleanString
Clean(s) ==
    /\ call = NoCall
    /\ call' = [fn |-> "CleanString", s |-> s, result |-> CleanString(s)]
    /\ UNCHANGED <<buf, comps, term, out, pre, runs, asked, dirty, box,
                   list, paginator>>

\* the truncation strings passed: none, "", "!" and a wide character
Truncations == {<<>>, << <<>> >>, << <<"!">> >>, << <<"han">> >>}

NextUtil ==
    \/ call = NoCall
       /\ \E number \in (0 - MaxNumber)..MaxNumber,
             minLength \in (0 - 1)..MaxMinLength :
              FormatInt(number, minLength)
    \/ call = NoCall
       /\ \E str \in StringsOver(Letters, MaxStr),
             length \in (0 - 1)..(MaxStr + 2), truncation \in Truncations :
              Truncate(str, length, truncation)
    \/ call = NoCall
       /\ \E s \in StringsOver(Texts, MaxText) : Clean(s)

SpecUtil == InitUtil /\ [][NextUtil]_vars

----------------------------------------------------------------------------
(* Paginator *)

\* int(math.Ceil(float64(numOfItems) / float64(itemsPerPage))), for
\* numOfItems >= 0 and itemsPerPage >= 1
Ceil(numOfItems, itemsPerPage) ==
    (numOfItems + itemsPerPage - 1) \div itemsPerPage

\* Paginator.Recalc
Recalc(p) ==
    [p EXCEPT !.numOfPages = Ceil(p.numOfItems, p.itemsPerPage),
              !.start = (p.currentPage - 1) * p.itemsPerPage,
              !.end = p.currentPage * p.itemsPerPage]

\* NewPaginator(pt, numOfItems, itemsPerPage)
NewPaginator(numOfItems, itemsPerPage) ==
    Recalc([itemsPerPage |-> itemsPerPage, currentPage |-> 1,
            numOfPages |-> 0, numOfItems |-> numOfItems,
            start |-> 0, end |-> 0])

PNextAlways(p) == Recalc([p EXCEPT !.currentPage = p.currentPage + 1])

\* Paginator.Next
PNext(p) ==
    IF p.currentPage < p.numOfPages
    THEN Recalc([p EXCEPT !.currentPage = p.currentPage + 1]) ELSE p

\* Paginator.Prev
PPrev(p) ==
    IF p.currentPage > 1
    THEN Recalc([p EXCEPT !.currentPage = p.currentPage - 1]) ELSE p

\* Paginator.NumOfItems(noi)
PNumOfItems(p, noi) == Recalc([p EXCEPT !.numOfItems = noi])

\* Paginator.ItemsPerPage(ipp)
PItemsPerPage(p, ipp) == Recalc([p EXCEPT !.itemsPerPage = ipp])

\* Paginator.NumOfPages(), Start() and End(): Recalc, then the field
PNumOfPages(p) == Recalc(p).numOfPages

PStart(p) == Recalc(p).start

PEnd(p) == Recalc(p).end

\* Paginator.Update
PUpdate(p, key) ==
    IF key = "right" THEN PNext(Recalc(p))
    ELSE IF key = "left" THEN PPrev(Recalc(p))
    ELSE Recalc(p)

\* a Paginator is built by itself
InitPaginator ==
    /\ buf = NewRoot(Vertical, 0, 0)
    /\ comps = <<>>
    /\ term = <<0, 0>>
    /\ out = EmptyOut
    /\ pre = NoPre
    /\ runs = 0
    /\ asked = NotAsked
    /\ dirty = FALSE
    /\ call = NoCall
    /\ box = NoBox
    /\ list = NoList
    /\ \E numOfItems \in 1..MaxNumOfItems, itemsPerPage \in 1..MaxPerPage :
           paginator = NewPaginator(numOfItems, itemsPerPage)

\* what is kept of a call on the Paginator: the call and the Paginator it
\* was made on
Paged(fn) ==
    /\ call' = [fn |-> fn]
    /\ pre' = [paginator |-> paginator]
    /\ UNCHANGED <<buf, comps, term, out, runs, asked, dirty, box, list>>

PaginatorNext ==
    /\ paginator' = PNext(paginator)
    /\ Paged("Next")

PaginatorPrev ==
    /\ paginator' = PPrev(paginator)
    /\ Paged("Prev")

PaginatorUpdate(key) ==
    /\ paginator' = PUpdate(paginator, key)
    /\ Paged(key)

NumOfItems(noi) ==
    /\ paginator' = PNumOfItems(paginator, noi)
    /\ Paged("NumOfItems")

ItemsPerPage(ipp) ==
    /\ paginator' = PItemsPerPage(paginator, ipp)
    /\ Paged("ItemsPerPage")

NextPaginator ==
    \/ PaginatorNext
    \/ PaginatorPrev
    \/ \E key \in {"right", "left", "up"} : PaginatorUpdate(key)
    \/ \E noi \in 1..MaxNumOfItems : NumOfItems(noi)
    \/ \E ipp \in 1..MaxPerPage : ItemsPerPage(ipp)

SpecPaginator == InitPaginator /\ [][NextPaginator]_vars

----------------------------------------------------------------------------
(* List *)

\* a % b as Go computes it, for b >= 1: the sign is that of a
Rem(a, b) == IF a >= 0 THEN a % b ELSE 0 - ((0 - a) % b)

\* NewListItem: not selected, not hovered
NewListItem == [selected |-> FALSE, hovered |-> FALSE]

\* the items of a List are numbered from 1 in l.items; filteredItems holds
\* the numbers of the items it points to, and current counts from 0
AllItems(l) == [j \in 1..Len(l.items) |-> j]

\* where item j is in filteredItems, 0 when it is not there
RECURSIVE Position(_, _, _)
Position(filteredItems, j, i) ==
    IF i > Len(filteredItems) THEN 0
    ELSE IF filteredItems[i] = j THEN i
    ELSE Position(filteredItems, j, i + 1)

\* changeFocus(l)(): every item of filteredItems is hovered when it is at
\* current and not hovered otherwise
ChangeFocus(l) ==
    [l EXCEPT !.items =
        [j \in 1..Len(l.items) |->
            IF Position(l.filteredItems, j, 1) = 0 THEN l.items[j]
            ELSE [l.items[j] EXCEPT !.hovered =
                     (Position(l.filteredItems, j, 1) - 1 = l.current)]]]

\* NewList(lt, multi, items...) with n items
NewList(n, multi) ==
    ChangeFocus(
        [items |-> [j \in 1..n |-> NewListItem],
         filteredItems |-> [j \in 1..n |-> j],
         paginator |-> NewPaginator(n, 10),
         current |-> 0, itemsPerPage |-> 10, multi |-> multi,
         interactive |-> FALSE, done |-> FALSE,
         failed |-> FALSE, pending |-> FALSE])

\* if l.current < 0 { l.current = 0 }
NotBelow(l) == IF l.current < 0 THEN [l EXCEPT !.current = 0] ELSE l

\* no upper clamp of l.current
Unbounded(l) == l

\* if l.current >= len(l.filteredItems) { l.current = len - 1 }
NotAbove(l) ==
    IF l.current >= Len(l.filteredItems)
    THEN [l EXCEPT !.current = Len(l.filteredItems) - 1] ELSE l

\* List.PrevPage
PrevPage(l) ==
    NotBelow(IF l.paginator.currentPage > 1
             THEN [l EXCEPT !.paginator = PPrev(l.paginator),
                            !.current = l.current - l.itemsPerPage]
             ELSE l)

\* List.NextPage
NextPage(l) ==
    NotAbove(IF l.paginator.currentPage < PNumOfPages(l.paginator)
             THEN [l EXCEPT !.paginator = PNext(Recalc(l.paginator)),
                            !.current = l.current + l.itemsPerPage]
             ELSE [l EXCEPT !.paginator = Recalc(l.paginator)])

\* List.PrevItem
PrevItem(l) ==
    NotBelow([l EXCEPT
                 !.paginator = IF Rem(l.current, l.itemsPerPage) = 0
                               THEN PPrev(l.paginator) ELSE l.paginator,
                 !.current = l.current - 1])

\* List.NextItem
NextItem(l) ==
    NotAbove([l EXCEPT
                 !.paginator =
                     IF Rem(l.current, l.itemsPerPage) = l.itemsPerPage - 1
                     THEN PNext(l.paginator) ELSE l.paginator,
                 !.current = l.current + 1])

\* whether l.filteredItems[l.current] is an item; when it is not, the
\* index expression is out of range and the handler ends there
InRange(l) == 0 <= l.current /\ l.current < Len(l.filteredItems)

Panicked(l) == [l EXCEPT !.failed = TRUE]

\* l.filteredItems[l.current].Check(true)
Check(l) ==
    [l EXCEPT !.items[l.filteredItems[l.current + 1]].selected = TRUE]

\* the selected flag set rather than negated
ToggleOn(l) ==
    [l EXCEPT !.items[l.filteredItems[l.current + 1]].selected = TRUE]

\* l.filteredItems[l.current].Toggle()
Toggle(l) ==
    [l EXCEPT !.items[l.filteredItems[l.current + 1]].selected = ~@]

\* the items of l.items that are checked, in order
CheckedItems(l) == SelectSeq(AllItems(l), LAMBDA j : l.items[j].selected)

\* List.Filter(fo): filteredItems is set to items, then to what the filter
\* keeps of it (keep: the numbers of the items the filter lets through)
Filtered(l, keep) ==
    ChangeFocus([l EXCEPT !.filteredItems =
                    SelectSeq(AllItems(l), LAMBDA j : j \in keep)])

\* List.Interactive(i)
SetInteractive(l, i) == ChangeFocus([l EXCEPT !.interactive = i])

\* List.Done(true): done, not interactive, filtered to the checked items
Done(l) ==
    Filtered(SetInteractive([l EXCEPT !.done = TRUE], FALSE),
             {j \in 1..Len(l.items) : l.items[j].selected})

\* ManageSelection: one of the two switches, on an enter key
Entered(l) ==
    IF l.failed THEN l
    ELSE IF l.multi THEN Done(l)
    ELSE IF InRange(l) THEN Done(Check(l))
    ELSE Panicked(l)

\* ManageSelection: the key is passed on to the current item of a multi
\* List, which toggles on a space key
PassedOn(l, key) ==
    IF l.failed \/ ~l.multi THEN l
    ELSE IF ~InRange(l) THEN Panicked(l)
    ELSE IF key = " " THEN Toggle(l) ELSE l

\* ManageSelection: tea.Quit is returned when done, else the focus command
Returned(l) ==
    IF l.failed \/ l.done THEN l ELSE [l EXCEPT !.pending = TRUE]

\* List.ManageSelection; an enter key has the string "enter" and the type
\* KeyEnter, so both switches run
ManageSelection(l, key) ==
    Returned(PassedOn(IF key = "enter" THEN Entered(Entered(l)) ELSE l,
                      key))

\* the focus command is returned
Focusing(l) == [l EXCEPT !.pending = TRUE]

\* List.Update
ListUpdate(l, key) ==
    IF key = "up" THEN Focusing(PrevItem(l))
    ELSE IF key = "down" THEN Focusing(NextItem(l))
    ELSE IF key = "left" THEN Focusing(PrevPage(l))
    ELSE IF key = "right" THEN Focusing(NextPage(l))
    ELSE ManageSelection(l, key)

\* List.ItemsPerPage(i)
ListItemsPerPage(l, i) ==
    ChangeFocus([l EXCEPT !.itemsPerPage = i,
                          !.paginator = PItemsPerPage(l.paginator, i)])

\* List.Buf on a List that is not done: the bounds of
\* l.filteredItems[Start():End()]
Window(l) == <<PStart(l.paginator), PEnd(l.paginator)>>

\* List.Buf: the slice expression is out of range, or reaches past the
\* items of filteredItems
Overruns(l) ==
    ~l.done /\ ~(/\ 0 <= Window(l)[1]
                 /\ Window(l)[1] <= Window(l)[2]
                 /\ Window(l)[2] <= Len(l.filteredItems))

\* List.View: Interactive(true), then Buf
Viewed(l) ==
    [SetInteractive(l, TRUE) EXCEPT
        !.paginator = Recalc(l.paginator),
        !.failed = Overruns(l)]

\* a List of at most MaxItems items is built
InitList ==
    /\ buf = NewRoot(Vertical, 0, 0)
    /\ comps = <<>>
    /\ term = <<0, 0>>
    /\ out = EmptyOut
    /\ pre = NoPre
    /\ runs = 0
    /\ asked = NotAsked
    /\ dirty = FALSE
    /\ call = NoCall
    /\ box = NoBox
    /\ paginator = NoPaginator
    /\ \E n \in 0..MaxItems, multi \in BOOLEAN : list = NewList(n, multi)

\* what is kept of a call on the List: the call and the List it was made on
Listed(fn) ==
    /\ call' = [fn |-> fn]
    /\ pre' = [list |-> list]
    /\ UNCHANGED <<buf, comps, term, out, runs, asked, dirty, box,
                   paginator>>

\* a key message is handled by List.Update; after tea.Quit, and after a
\* failure, no message follows
Update(key) ==
    /\ ~list.done
    /\ ~list.failed
    /\ list' = ListUpdate(list, key)
    /\ Listed(key)

\* the focus command a handler returned is run
FocusCmd ==
    /\ list.pending
    /\ ~list.failed
    /\ list' = [ChangeFocus(list) EXCEPT !.pending = FALSE]
    /\ Listed("focus")

\* List.ItemsPerPage(i)
SetItemsPerPage(i) ==
    /\ ~list.done
    /\ ~list.failed
    /\ list' = ListItemsPerPage(list, i)
    /\ Listed("ItemsPerPage")

\* List.Filter(fo)
Filter(keep) ==
    /\ ~list.done
    /\ ~list.failed
    /\ list' = Filtered(list, keep)
    /\ Listed("Filter")

\* List.View
View ==
    /\ ~list.failed
    /\ list' = Viewed(list)
    /\ Listed("View")

NavKeys == {"up", "down", "left", "right"}

\* a List is built, ItemsPerPage is called at most once and before the
\* first key, then arrow and space keys are handled
NextNav ==
    \/ \E key \in NavKeys \cup {" "} : Update(key)
    \/ FocusCmd
    \/ call = NoCall /\ \E i \in 1..MaxPerPage : SetItemsPerPage(i)

SpecNav == InitList /\ [][NextNav]_vars

\* a List is built and used in any way; ItemsPerPage is called at most
\* once and before the first key, and one Filter call, on the List with all
\* its items, is explored
NextList ==
    \/ \E key \in NavKeys \cup {" ", "enter"} : Update(key)
    \/ FocusCmd
    \/ call = NoCall /\ \E i \in 1..MaxPerPage : SetItemsPerPage(i)
    \/ list.filteredItems = AllItems(list)
       /\ \E keep \in SUBSET (1..Len(list.items)) : Filter(keep)
    \/ View

SpecList == InitList /\ [][NextList]_vars

----------------------------------------------------------------------------
(* What the claims speak of *)

\* the last step was a String() call on a container with components
Rendered1 == runs >= 1 /\ Len(comps) > 0

\* the measured widths and heights of the components (Buffer.Size) before
\* and after the last String() call
NatW(i) == SizeW(pre.comps[i])

NatH(i) == SizeH(pre.comps[i])

NowW(i) == SizeW(comps[i])

NowH(i) == SizeH(comps[i])

PreTotalWidth == Sum([i \in 1..Len(pre.comps) |-> NatW(i)])

PreTotalHeight == Sum([i \in 1..Len(pre.comps) |-> NatH(i)])

PreMaxWidth == MaxOf([i \in 1..Len(pre.comps) |-> NatW(i)])

PreMaxHeight == MaxOf([i \in 1..Len(pre.comps) |-> NatH(i)])

\* the stored sizes of the container and its components are those before
\* the last String() call
SameStoredSizes ==
    /\ buf.width = pre.buf.width
    /\ buf.height = pre.buf.height
    /\ \A i \in 1..Len(comps) :
           /\ comps[i].width = pre.comps[i].width
           /\ comps[i].height = pre.comps[i].height

\* C1: a second String() call with no mutation in between returns the
\* string of the first and changes no stored width or height of the
\* container or of its components.
C1_Idempotent ==
    runs >= 2 => (out = pre.out /\ SameStoredSizes)

----------------------------------------------------------------------------
(* Horizontal allocation *)

\* the last String() call ran the Horizontal branch
RenderedH == Rendered1 /\ buf.orient = Horizontal

\* the container width the allocation started from (after the fallback)
PreWidth == FallbackW(pre.buf, term)

\* the last String() call took the shrink branch of the Horizontal case
Shrunk == RenderedH /\ ~(PreWidth = 0 \/ PreTotalWidth < PreWidth)

PreDelta == PreTotalWidth - PreWidth - pre.buf.padH

PerChild == PreDelta \div Len(comps)

Remainder == PreDelta - PerChild * Len(comps)

\* the first, and the last, component among those of the largest width
FirstWidest ==
    CHOOSE i \in 1..Len(comps) :
        /\ NatW(i) = PreMaxWidth
        /\ \A j \in 1..(i - 1) : NatW(j) < PreMaxWidth

LastWidest ==
    CHOOSE i \in 1..Len(comps) :
        /\ NatW(i) = PreMaxWidth
        /\ \A j \in (i + 1)..Len(comps) : NatW(j) < PreMaxWidth

\* the width stored on component i when the remainder goes to component k
StoredWith(i, k) ==
    Clamp(NatW(i) - PerChild - FrameW(comps[i])
          - (IF i = k THEN Remainder ELSE 0))

\* the example of the claim: natural widths [5,9,9], width 15, padding 0
Example599 ==
    /\ runs = 1
    /\ buf.orient = Horizontal
    /\ Len(comps) = 3
    /\ <<NatW(1), NatW(2), NatW(3)>> = <<5, 9, 9>>
    /\ pre.buf.width = 15
    /\ pre.buf.padH = 0

\* C2 as stated: the remainder is taken from the last component among those
\* tied for the largest width; [5,9,9] in 15 end as [3,7,5].
C2_LastTied ==
    /\ (Shrunk /\ Remainder > 0) =>
           \A i \in 1..Len(comps) : comps[i].width = StoredWith(i, LastWidest)
    /\ Example599 => <<NowW(1), NowW(2), NowW(3)>> = <<3, 7, 5>>

\* C2 as amended: the remainder is taken from the first component among
\* those tied for the largest width; [5,9,9] in 15 end as [3,5,7].
C2_FirstTied ==
    /\ (Shrunk /\ Remainder > 0) =>
           \A i \in 1..Len(comps) : comps[i].width = StoredWith(i, FirstWidest)
    /\ Example599 => <<NowW(1), NowW(2), NowW(3)>> = <<3, 5, 7>>

C2_Witness ==
    /\ Example599
    /\ Shrunk
    /\ Remainder = 2
    /\ FirstWidest = 2
    /\ <<comps[1].width, comps[2].width, comps[3].width>> = <<3, 5, 7>>

\* the Horizontal container had an explicit width smaller than the total
\* width of its components
ExplicitNarrow ==
    RenderedH /\ pre.buf.width > 0 /\ pre.buf.width < PreTotalWidth

\* C3: with delta = totalWidth - width - horizontalPadding and perChild =
\* floor(delta / childCount), every component ends at its natural width
\* minus perChild, except one that also loses the remainder; the widths then
\* sum to totalWidth - delta.
C3_PerChild ==
    ExplicitNarrow =>
        /\ \E k \in 1..Len(comps) : \A i \in 1..Len(comps) :
               NowW(i) = NatW(i) - PerChild - (IF i = k THEN Remainder ELSE 0)
        /\ Sum([i \in 1..Len(comps) |-> NowW(i)]) = PreTotalWidth - PreDelta

\* the container's frame
PreFrameW == RootFrameW(pre.buf)

PreFrameH == RootFrameH(pre.buf)

\* C4 as stated: a Horizontal container of unset width ends with the sum of
\* its components' natural widths, whatever the terminal size.
C4_AnyTerminal ==
    (RenderedH /\ pre.buf.width = 0) => buf.width = PreTotalWidth

\* C4 as amended: it ends with that sum unless the terminal width minus the
\* container's horizontal frame is positive and at most the sum; then it
\* ends with the terminal width minus the frame.
C4_ShrinkToFit ==
    (RenderedH /\ pre.buf.width = 0) =>
        buf.width = IF 0 < term[1] - PreFrameW
                       /\ term[1] - PreFrameW <= PreTotalWidth
                    THEN term[1] - PreFrameW
                    ELSE PreTotalWidth

\* components of widths [4,6] under a terminal of (80,24): width 10
C4_Witness ==
    /\ RenderedH /\ runs = 1 /\ pre.buf.width = 0
    /\ Len(comps) = 2
    /\ <<NatW(1), NatW(2)>> = <<4, 6>>
    /\ term = <<80, 24>>
    /\ buf.width = 10

----------------------------------------------------------------------------
(* Vertical allocation and heights *)

RenderedV == Rendered1 /\ buf.orient = Vertical

\* C5 as stated: a Vertical container with unset width and height ends with
\* height = sum of the heights + vertical padding and width = largest
\* width + horizontal padding.
C5_AnyTerminal ==
    (RenderedV /\ pre.buf.width = 0 /\ pre.buf.height = 0) =>
        /\ buf.height = PreTotalHeight + pre.buf.padV
        /\ buf.width = PreMaxWidth + pre.buf.padH

\* C5 as amended: so it ends on each axis unless the terminal size minus
\* the container's frame on that axis is positive and at most what the
\* components need (largest width, sum of heights); then that difference
\* is kept.
C5_VerticalSnap ==
    (RenderedV /\ pre.buf.width = 0 /\ pre.buf.height = 0) =>
        /\ buf.height = IF 0 < term[2] - PreFrameH
                           /\ term[2] - PreFrameH <= PreTotalHeight
                        THEN term[2] - PreFrameH
                        ELSE PreTotalHeight + pre.buf.padV
        /\ buf.width = IF 0 < term[1] - PreFrameW
                          /\ term[1] - PreFrameW <= PreMaxWidth
                       THEN term[1] - PreFrameW
                       ELSE PreMaxWidth + pre.buf.padH

\* components of heights [2,3] and widths [4,6]: height 5 + padding, width
\* 6 + padding
C5_Witness ==
    /\ RenderedV /\ runs = 1
    /\ pre.buf.width = 0 /\ pre.buf.height = 0
    /\ Len(comps) = 2
    /\ <<NatH(1), NatH(2)>> = <<2, 3>>
    /\ <<NatW(1), NatW(2)>> = <<4, 6>>
    /\ pre.buf.padV = 2
    /\ buf.height = 7
    /\ buf.width = 8

\* the height the components require
PreNeedHeight ==
    IF buf.orient = Vertical THEN PreTotalHeight ELSE PreMaxHeight

\* C6 as stated: an explicit height larger than the components require is
\* kept.
C6_LargerKept ==
    (Rendered1 /\ pre.buf.height > PreNeedHeight) =>
        buf.height = pre.buf.height

\* C6 as amended: an explicit height larger than the components require is
\* replaced by the required height + vertical padding; an explicit height
\* not larger is kept.
C6_LargerSnapped ==
    (Rendered1 /\ pre.buf.height > 0) =>
        buf.height = IF pre.buf.height > PreNeedHeight
                     THEN PreNeedHeight + pre.buf.padV
                     ELSE pre.buf.height

C6_Witness ==
    /\ Rendered1
    /\ pre.buf.height = 2
    /\ PreNeedHeight = 1
    /\ pre.buf.padV = 0
    /\ buf.height = 1

\* C7 as stated: an explicit width smaller than the widest component
\* becomes maxWidth + horizontal padding; one at least maxWidth is kept.
C7_SmallerGrows ==
    (RenderedV /\ pre.buf.width > 0) =>
        buf.width = IF pre.buf.width < PreMaxWidth
                    THEN PreMaxWidth + pre.buf.padH
                    ELSE pre.buf.width

\* C7 as amended: an explicit width larger than the widest component
\* becomes maxWidth + horizontal padding; one at most maxWidth is kept.
C7_LargerSnaps ==
    (RenderedV /\ pre.buf.width > 0) =>
        buf.width = IF pre.buf.width > PreMaxWidth
                    THEN PreMaxWidth + pre.buf.padH
                    ELSE pre.buf.width

C7_Witness ==
    /\ RenderedV
    /\ pre.buf.width = 1
    /\ PreMaxWidth = 2
    /\ buf.width = 1

\* the Vertical container kept its explicit width
KeptWidth == RenderedV /\ pre.buf.width > 0 /\ pre.buf.width <= PreMaxWidth

\* C8: in a Vertical container that keeps its explicit width, a component
\* wider than width - horizontal padding ends at most that wide, and every
\* other component keeps its width.
C8_Cap ==
    KeptWidth =>
        \A i \in 1..Len(comps) :
            IF NatW(i) > pre.buf.width - pre.buf.padH
            THEN NowW(i) <= pre.buf.width - pre.buf.padH
            ELSE NowW(i) = NatW(i) /\ comps[i].width = pre.comps[i].width

\* the Horizontal container had no width, or one its components fit in
Fits == RenderedH /\ (pre.buf.width = 0 \/ PreTotalWidth <= pre.buf.width)

\* C9: in a Horizontal container whose width is unset or is at least the
\* total width, no component's width changes.
C9_NaturalWidth ==
    Fits => \A i \in 1..Len(comps) : NowW(i) = NatW(i)

\* C10 as stated: an empty container with unset width and height under a
\* terminal of (80,24) is allocated (80 - frame, 24 - frame).
C10_Fallback ==
    (runs >= 1 /\ Len(comps) = 0 /\ term = <<80, 24>>
       /\ pre.buf.width = 0 /\ pre.buf.height = 0) =>
        /\ buf.width = 80 - PreFrameW
        /\ buf.height = 24 - PreFrameH

\* C10 as amended: an empty container with unset width and height is
\* allocated nothing, whatever the terminal: width and height stay unset
\* and the empty string is returned.
C10_NoAllocation ==
    (runs >= 1 /\ Len(comps) = 0
       /\ pre.buf.width = 0 /\ pre.buf.height = 0) =>
        /\ buf.width = 0
        /\ buf.height = 0
        /\ out = EmptyOut

C10_Witness ==
    /\ runs >= 1 /\ Len(comps) = 0 /\ term = <<80, 24>>
    /\ pre.buf.width = 0 /\ pre.buf.height = 0
    /\ buf.width = 0
    /\ RootFrameW(buf) = 2

----------------------------------------------------------------------------
(* No terminal size *)

\* the width the components give a container of unset width
PreContentWidth ==
    IF buf.orient = Horizontal THEN PreTotalWidth
    ELSE PreMaxWidth + pre.buf.padH

\* the first String() call ran on a container with components while
\* GetTerminalSize reported (0,0)
NoTerminal == Rendered1 /\ runs = 1 /\ term = <<0, 0>>

\* C11: when GetTerminalSize reports (0,0), String() leaves every unset
\* dimension at its content-driven size: an unset container width becomes
\* the width its components give it, an unset height the height they need
\* plus the vertical padding, and under an unset container width no
\* component ends narrower than its natural width or with width zero.
C11_ContentDriven ==
    NoTerminal =>
        /\ pre.buf.width = 0 => buf.width = PreContentWidth
        /\ pre.buf.height = 0 => buf.height = PreNeedHeight + pre.buf.padV
        /\ pre.buf.width = 0 =>
               \A i \in 1..Len(comps) : NowW(i) = NatW(i) /\ NowW(i) > 0

----------------------------------------------------------------------------
(* Measured sizes *)

\* the horizontal padding of a component, and the rest of its frame
PadW(c) == c.padL + c.padR

OuterW(c) == FrameW(c) - PadW(c)

\* the width of the text of a component once wrapped under its stored width
LaidW(c) ==
    IF c.width - PadW(c) >= 1 /\ c.width - PadW(c) < c.cw
    THEN c.width - PadW(c) ELSE c.cw

----------------------------------------------------------------------------
(* Stored sizes *)

\* the width the Horizontal allocation computes for component i, before it
\* is stored
RawWidth(i) ==
    NatW(i) - PerChild - FrameW(comps[i])
    - (IF i = FirstWidest /\ Remainder > 0 THEN Remainder ELSE 0)

----------------------------------------------------------------------------
(* Rendering again after a mutation *)

\* the first String() call on a container built afresh with the frame of
\* the root, no requested width or height, and the components the root has
FreshString ==
    BufferString([buf EXCEPT !.width = 0, !.height = 0, !.value = EmptyStr],
                 [i \in 1..Len(pre.comps) |->
                     [pre.comps[i] EXCEPT !.width = 0, !.height = 0]],
                 term)

\* the last step was a String() call, not the first, and components were
\* added or removed since the one before it
Mutated == runs >= 2 /\ ~dirty /\ pre.dirty

\* C14: a String() call after a mutation returns the string, and leaves the
\* container and component sizes, of the first String() call on a container
\* built afresh with the same components and requested dimensions.
C14_AsFresh ==
    Mutated =>
        /\ out = FreshString.out
        /\ buf = FreshString.buf
        /\ comps = FreshString.comps

----------------------------------------------------------------------------
(* Text or components *)

\* the strings of the components, joined as the orientation says
JoinOf(cs) ==
    IF buf.orient = Horizontal THEN JoinHorizontal(Strings(cs))
    ELSE JoinVertical(Strings(cs))

\* the strings one after the other
RECURSIVE CatAll(_)
CatAll(strs) ==
    IF Len(strs) = 1 THEN strs[1] ELSE StrCat(strs[1], CatAll(Tail(strs)))

HadComponents == Len(pre.comps) > 0

HadText == pre.buf.value # EmptyStr

\* C15: a String() call renders either the text or the components: a
\* ContainerBuffer with components returns their strings joined and nothing
\* of its text, one without components its text; a TextBuffer without text
\* returns the strings of its components one after the other, one with
\* text its text.
C15_OneOf ==
    runs >= 1 =>
        /\ (buf.type = ContainerBuffer /\ HadComponents) =>
               out.value = JoinOf(comps)
        /\ (buf.type = ContainerBuffer /\ ~HadComponents) =>
               out.value = pre.buf.value
        /\ (buf.type = TextBuffer /\ ~HadText /\ HadComponents) =>
               out.value = CatAll(Strings(pre.comps))
        /\ (buf.type = TextBuffer /\ HadText) =>
               out.value = pre.buf.value

----------------------------------------------------------------------------
(* Zero and unset *)

\* the first String() call ran on a container with components
FirstRendered == Rendered1 /\ runs = 1

\* where an unset width, and an unset height, of a container end: at the
\* terminal size minus the frame when that is positive and not more than
\* the components need, else at what the components need
UnsetWidthEnds ==
    IF buf.orient = Horizontal
    THEN IF 0 < term[1] - PreFrameW /\ term[1] - PreFrameW <= PreTotalWidth
         THEN term[1] - PreFrameW ELSE PreTotalWidth
    ELSE IF 0 < term[1] - PreFrameW /\ term[1] - PreFrameW <= PreMaxWidth
         THEN term[1] - PreFrameW ELSE PreMaxWidth + pre.buf.padH

UnsetHeightEnds ==
    IF 0 < term[2] - PreFrameH /\ term[2] - PreFrameH <= PreNeedHeight
    THEN term[2] - PreFrameH ELSE PreNeedHeight + pre.buf.padV

----------------------------------------------------------------------------
(* Rendering returns *)

\* a string: lines of cells
IsString(s) == s \in Seq(Seq(Int))

----------------------------------------------------------------------------
(* FormatIntWithPrefix *)

\* the number a string of digits, with or without a sign, writes
RECURSIVE DecimalValue(_, _)
DecimalValue(str, acc) ==
    IF str = <<>> THEN acc
    ELSE DecimalValue(Tail(str),
                      10 * acc + (CHOOSE d \in 0..9 : Digit(d) = Head(str)))

Written(str) ==
    IF str # <<>> /\ Head(str) = "-"
    THEN 0 - DecimalValue(Tail(str), 0) ELSE DecimalValue(str, 0)

\* C18: FormatIntWithPrefix(number, minLength) is the decimal representation
\* of number preceded by max(0, minLength - width(number)) zeros and nothing
\* else; it is max(width(number), minLength) wide, and a number at least as
\* wide as minLength is returned unchanged.
C18_Prefixed ==
    call.fn = "FormatIntWithPrefix" =>
        /\ Written(Itoa(call.number)) = call.number
        /\ call.result =
               Zeros(Max(0, call.minLength - LineWidth(Itoa(call.number))))
               \o Itoa(call.number)
        /\ LineWidth(call.result) =
               Max(LineWidth(Itoa(call.number)), call.minLength)
        /\ LineWidth(Itoa(call.number)) >= call.minLength =>
               call.result = Itoa(call.number)

\* 7 formatted to three cells
C18_Witness ==
    /\ call.fn = "FormatIntWithPrefix"
    /\ call.number = 7
    /\ call.minLength = 3
    /\ call.result = <<"0", "0", "7">>

----------------------------------------------------------------------------
(* TruncateString *)

\* the strings str begins with
Prefixes(str) == { SubSeq(str, 1, k) : k \in 0..Len(str) }

\* C19: TruncateString(str, length) is "" when length <= 0 and str when
\* width(str) <= length; otherwise it is exactly length wide, a prefix of str
\* followed by the truncation string when length >= width(truncation), the
\* first length characters of str when length < width(truncation); it is
\* never wider than length.
C19_Truncated ==
    call.fn = "TruncateString" =>
        /\ ~call.panics
        /\ call.length <= 0 => call.result = <<>>
        /\ (call.length > 0 /\ LineWidth(call.str) <= call.length) =>
               call.result = call.str
        /\ (call.length > 0 /\ LineWidth(call.str) > call.length) =>
               /\ WidthOf(call.result, call.brokenWidth) = call.length
               /\ call.length >= LineWidth(Truncation(call.truncation)) =>
                      \E p \in Prefixes(call.str) :
                          call.result = p \o Truncation(call.truncation)
               /\ call.length < LineWidth(Truncation(call.truncation)) =>
                      call.result = SubSeq(call.str, 1, call.length)
        /\ call.length > 0 =>
               WidthOf(call.result, call.brokenWidth) <= call.length

----------------------------------------------------------------------------
(* CleanString *)

\* the lines of s, each without its leading and trailing spaces
Trimmed(s) ==
    [i \in 1..Len(Split(s, <<>>)) |-> TrimSpace(Split(s, <<>>)[i])]

\* the lines of s that are not empty once trimmed
NonEmpty(s) == { i \in 1..Len(Trimmed(s)) : Trimmed(s)[i] # <<>> }

Least(S) == CHOOSE i \in S : \A j \in S : i <= j

Greatest(S) == CHOOSE i \in S : \A j \in S : j <= i

\* C20: CleanString(s) is the lines of s, each without leading and trailing
\* whitespace, from the first to the last line that is not empty, the empty
\* lines between them kept; "" when no line is not empty; and cleaning the
\* result again changes nothing.
C20_Cleaned ==
    call.fn = "CleanString" =>
        /\ call.result =
               IF NonEmpty(call.s) = {} THEN <<>>
               ELSE Join(SubSeq(Trimmed(call.s), Least(NonEmpty(call.s)),
                                Greatest(NonEmpty(call.s))))
        /\ \A i \in 1..Len(Split(call.result, <<>>)) :
               LET line == Split(call.result, <<>>)[i]
               IN  line = <<>> \/ (line[1] = "x" /\ line[Len(line)] = "x")
        /\ CleanString(call.result) = call.result

\* an empty line before and between two lines, a space before the first
\* and a tab after the second
C20_Witness ==
    /\ call.fn = "CleanString"
    /\ call.s = <<"\n", " ", "x", "\n", "\n", "x", "\t">>
    /\ call.result = <<"x", "\n", "\n", "x">>

----------------------------------------------------------------------------
(* Pages *)

\* the last call on the Paginator was Next, or a right key
WentNext == call.fn \in {"Next", "right"}

\* the last call on the Paginator was Prev, or a left key
WentPrev == call.fn \in {"Prev", "left"}

\* C21: Next adds exactly one to currentPage when currentPage < numOfPages
\* and otherwise leaves the Paginator as it was; Prev takes exactly one off
\* when currentPage > 1 and otherwise leaves it as it was; after either,
\* start = (currentPage - 1) * itemsPerPage and end = currentPage *
\* itemsPerPage.
C21_Steps ==
    /\ WentNext =>
           /\ IF pre.paginator.currentPage < pre.paginator.numOfPages
              THEN /\ paginator.currentPage = pre.paginator.currentPage + 1
                   /\ paginator.numOfItems = pre.paginator.numOfItems
                   /\ paginator.itemsPerPage = pre.paginator.itemsPerPage
                   /\ paginator.numOfPages = pre.paginator.numOfPages
              ELSE paginator = pre.paginator
    /\ WentPrev =>
           /\ IF pre.paginator.currentPage > 1
              THEN /\ paginator.currentPage = pre.paginator.currentPage - 1
                   /\ paginator.numOfItems = pre.paginator.numOfItems
                   /\ paginator.itemsPerPage = pre.paginator.itemsPerPage
                   /\ paginator.numOfPages = pre.paginator.numOfPages
              ELSE paginator = pre.paginator
    /\ (WentNext \/ WentPrev) =>
           /\ paginator.start
                  = (paginator.currentPage - 1) * paginator.itemsPerPage
           /\ paginator.end = paginator.currentPage * paginator.itemsPerPage

\* Next on the last page left a Paginator of more than one page as it was
C21_Witness ==
    /\ call.fn = "Next"
    /\ pre.paginator.currentPage = pre.paginator.numOfPages
    /\ pre.paginator.numOfPages > 1
    /\ paginator = pre.paginator
    /\ paginator.start > 0

\* C28: after any sequence of Next, Prev, NumOfItems(n) and ItemsPerPage(k)
\* with n >= 1 and k >= 1, 1 <= currentPage <= numOfPages.
C28_PageInRange ==
    paginator # NoPaginator =>
        /\ 1 <= paginator.currentPage
        /\ paginator.currentPage <= paginator.numOfPages

----------------------------------------------------------------------------
(* Keys on a List *)

\* the item of l.items at the current index, 0 when there is none
CurrentItem(l) == IF InRange(l) THEN l.filteredItems[l.current + 1] ELSE 0

\* C22: a space key makes the selected flag of the current item of a
\* multi-select List its negation, and leaves every other item's selected
\* flag, the current index, the page and the done flag as they were; in a
\* List that is not multi-select it changes no selected flag.
C22_SpaceToggles ==
    (list # NoList /\ call.fn = " ") =>
        /\ \A j \in 1..Len(list.items) :
               list.items[j].selected =
                   IF pre.list.multi /\ j = CurrentItem(pre.list)
                   THEN ~pre.list.items[j].selected
                   ELSE pre.list.items[j].selected
        /\ list.current = pre.list.current
        /\ list.paginator.currentPage = pre.list.paginator.currentPage
        /\ list.done = pre.list.done

\* a space key on the second item of a multi-select List, which was
\* selected, while the first item stays selected
C22_Witness ==
    /\ list # NoList
    /\ call.fn = " "
    /\ pre.list.multi
    /\ pre.list.current = 1
    /\ pre.list.items[1].selected /\ pre.list.items[2].selected
    /\ list.items[1].selected /\ ~list.items[2].selected

\* C23: in a List with at least one item, after any arrow keys,
\* 0 <= current < len(filteredItems).
C23_CurrentInRange ==
    (list # NoList /\ Len(list.items) >= 1) =>
        /\ 0 <= list.current
        /\ list.current < Len(list.filteredItems)

\* a down key on the last item
C23_Witness ==
    /\ list # NoList
    /\ call.fn = "down"
    /\ Len(list.items) >= 2
    /\ pre.list.current = Len(list.items) - 1
    /\ list.current = Len(list.items) - 1

\* C24: after any arrow keys the page of the paginator is the page of the
\* current item, currentPage = floor(current / itemsPerPage) + 1, and
\* current lies in [Start, End).
C24_PageOfCurrent ==
    list # NoList =>
        /\ list.paginator.currentPage
               = (list.current \div list.itemsPerPage) + 1
        /\ PStart(list.paginator) <= list.current
        /\ list.current < PEnd(list.paginator)

----------------------------------------------------------------------------
(* Rendering and Enter on a List *)

\* C25: whenever a List that is not done is rendered, the window that
\* slices the items satisfies 0 <= Start <= End <= len(filteredItems).
C25_WindowInRange ==
    (list # NoList /\ call.fn = "View" /\ ~pre.list.done) =>
        /\ 0 <= Window(pre.list)[1]
        /\ Window(pre.list)[1] <= Window(pre.list)[2]
        /\ Window(pre.list)[2] <= Len(pre.list.filteredItems)

\* C26: handling an enter key never reads filteredItems[current] with
\* current outside filteredItems.
C26_EnterInRange ==
    (list # NoList /\ call.fn = "enter") => ~list.failed

\* C27: after an enter key the handler has returned with the List done and
\* not interactive, filteredItems is the checked items in their original
\* order; in a List that is not multi-select that is the one item that was
\* at the current index, and in a multi-select List no selected flag has
\* changed.
C27_AfterEnter ==
    (list # NoList /\ call.fn = "enter") =>
        /\ ~list.failed
        /\ list.done
        /\ ~list.interactive
        /\ list.filteredItems = CheckedItems(list)
        /\ ~pre.list.multi =>
               list.filteredItems = <<CurrentItem(pre.list)>>
        /\ pre.list.multi =>
               \A j \in 1..Len(list.items) :
                   list.items[j].selected = pre.list.items[j].selected

\* C29: after the focus command has run, the item at filteredItems[current]
\* is hovered and no other item of the List is.
C29_OneHovered ==
    (list # NoList /\ call.fn = "focus") =>
        /\ InRange(list)
        /\ \A j \in 1..Len(list.items) :
               list.items[j].hovered <=> (j = CurrentItem(list))

----------------------------------------------------------------------------
(* Horizontal allocation: no component widened *)

\* C30: after a String() call on a Horizontal container with an explicit
\* width, every component is at most as wide as it was, and the widths of
\* the components sum to at most the container's width minus its horizontal
\* padding.
C30_NeverWidens ==
    (RenderedH /\ pre.buf.width > 0) =>
        /\ \A i \in 1..Len(comps) : NowW(i) <= NatW(i)
        /\ Sum([i \in 1..Len(comps) |-> NowW(i)])
               <= pre.buf.width - pre.buf.padH

====
